---- MODULE Spec2Model ----
(***************************************************************************)
(* Document bucket: the entity model (model.py) and the bucket operations  *)
(* (api.py) of exercises/python/encryption-context.                        *)
(*                                                                         *)
(* Python strings are sequences of one-character strings over Chars.       *)
(* The configuration file (document_bucket.config) is read through the     *)
(* accessors partition_key_name, sort_key_name, _prefix and                *)
(* sort_key_config; the values chosen here stand for the configured ones.  *)
(* The blob store, the record store and the encryption provider are        *)
(* injected collaborators; they behave as their contracts say              *)
(* (put/get by key, query by partition key, scan, encrypt embedding the    *)
(* context and decrypt recovering it).  api.py names the entity classes     *)
(* DocumentBucketItem, DocumentBucketPointerItem, DocumentBucketContextItem,*)
(* DocumentBucketContextQuery and DocumentBucketBundle; they are model.py's *)
(* BaseItem, PointerItem, ContextItem, ContextQuery and DocumentBundle.     *)
(* uuid.uuid4() is taken never to return the same UUID twice.  UuidLen     *)
(* stands for the 32 hex digits of a UUID.                                 *)
(***************************************************************************)
EXTENDS Naturals, Sequences, FiniteSets, TLC

VARIABLES
    table,      \* record store: <<partition key, sort key>> -> item
    bucket,     \* blob store: object key -> [Body, Metadata]
    stored,     \* history: the documents written by successful store calls
    result,     \* the last operation of DocumentBucketOperations and its outcome
    call,       \* entity model: the last method call and what it returned
    objs,       \* entity model: the items constructed so far
    writer      \* the store call in progress, write by write

vars == <<table, bucket, stored, result, call, objs, writer>>

(***************************************************************************)
(* Bounds                                                                  *)
(***************************************************************************)
MaxLen == 3         \* longest string given to canonicalize
MaxDocs == 2        \* store calls in one behaviour
MaxCtx == 2         \* tags in one context map
MaxAttempts == 2    \* store calls, failed ones included, in one behaviour

(***************************************************************************)
(* Strings                                                                 *)
(***************************************************************************)
Chars == {"a", "A", "1", "p", "P"}

HexChars == {"a", "A", "1"}

UuidLen == 2        \* hex digits of a UUID string (32 in uuid.UUID)

None == <<"None">>

RECURSIVE StringsOfLen(_)
StringsOfLen(n) ==
    IF n = 0 THEN {<<>>}
    ELSE {Append(s, c) : s \in StringsOfLen(n - 1), c \in Chars}

StringsUpTo(n) == UNION {StringsOfLen(k) : k \in 0..n}

upper_char(c) ==
    CASE c = "a" -> "A"
      [] c = "p" -> "P"
      [] OTHER -> c

lower_char(c) ==
    CASE c = "A" -> "a"
      [] c = "P" -> "p"
      [] OTHER -> c

upper(s) == [i \in 1..Len(s) |-> upper_char(s[i])]

lower(s) == [i \in 1..Len(s) |-> lower_char(s[i])]

startswith(s, p) == Len(p) <= Len(s) /\ SubSeq(s, 1, Len(p)) = p

(***************************************************************************)
(* uuid.UUID(s) and str(uuid): parse hex digits of either case, print them *)
(* in lower case.                                                          *)
(***************************************************************************)
uuid_wellformed(s) ==
    s # None /\ Len(s) = UuidLen /\ \A i \in 1..Len(s) : s[i] \in HexChars

str_UUID(s) == lower(s)

UUIDs == {s \in StringsOfLen(UuidLen) : uuid_wellformed(s) /\ str_UUID(s) = s}

(***************************************************************************)
(* Configuration                                                           *)
(***************************************************************************)
partition_key_name == <<"p">>

sort_key_name == <<"p", "p">>

ctx_prefix == <<"p", "a">>

sort_key_config == <<"P", "1">>

_prefix == upper(ctx_prefix)

(***************************************************************************)
(* Python dicts are functions; EmptyDict is {}.                            *)
(***************************************************************************)
EmptyDict == [k \in {} |-> k]

dict_merge(a, b) ==
    [k \in DOMAIN a \cup DOMAIN b |-> IF k \in DOMAIN b THEN b[k] ELSE a[k]]

dict_del(d, k) == [x \in DOMAIN d \ {k} |-> d[x]]

dict_items(d) == {<<k, d[k]>> : k \in DOMAIN d}

(***************************************************************************)
(* ContextItem.is_context_key_fmt, ContextItem.canonicalize                *)
(***************************************************************************)
is_context_key_fmt(key) == startswith(key, _prefix)

\* canonicalize that adds the prefix without looking
canonicalize_always_prefix(context_key) == _prefix \o upper(context_key)

canonicalize(context_key) ==
    LET up == upper(context_key)
    IN  IF ~is_context_key_fmt(up) THEN _prefix \o up ELSE up

(***************************************************************************)
(* BaseItem: an item is [cls, partition_key, sort_key, context]; only a    *)
(* PointerItem has a context field, the others carry EmptyDict.            *)
(***************************************************************************)
Item(cls, partition_key, sort_key, context) ==
    [cls |-> cls, partition_key |-> partition_key, sort_key |-> sort_key,
     context |-> context]

\* BaseItem.__hash__: hash((partition_key, sort_key))
ItemHash(self) == <<self.partition_key, self.sort_key>>

\* dataclass-generated comparison of all fields, which BaseItem.__eq__ replaces
ItemEqAllFields(self, other) ==
    /\ self.cls = other.cls
    /\ other.partition_key = self.partition_key
    /\ other.sort_key = self.sort_key
    /\ other.context = self.context

\* BaseItem.__eq__
ItemEq(self, other) ==
    IF self.cls = other.cls
    THEN other.partition_key = self.partition_key /\ other.sort_key = self.sort_key
    ELSE FALSE

\* BaseItem._assert_set
_assert_set(partition_key, sort_key) ==
    IF partition_key = None \/ sort_key = None THEN "DataModelException" ELSE "ok"

\* BaseItem.to_key
to_key(self) ==
    [k \in {partition_key_name, sort_key_name} |->
        IF k = partition_key_name THEN self.partition_key ELSE self.sort_key]

\* PointerItem.get_s3_key
get_s3_key(self) == self.partition_key

(***************************************************************************)
(* ContextItem.__post_init__                                               *)
(***************************************************************************)
ContextItemError(partition_key, sort_key) ==
    IF _assert_set(partition_key, sort_key) # "ok" THEN "DataModelException"
    ELSE IF ~uuid_wellformed(sort_key) THEN "ValueError"
    ELSE "ok"

ContextItem(partition_key, sort_key) ==
    Item("ContextItem", canonicalize(partition_key), str_UUID(sort_key), EmptyDict)

(***************************************************************************)
(* PointerItem                                                             *)
(***************************************************************************)
\* the check with the sort-key name left out
_validate_reserved_ec_keys_pkn_only(context) ==
    IF partition_key_name \in DOMAIN context
    THEN "DataModelException" ELSE "ok"

\* PointerItem._validate_reserved_ec_keys
_validate_reserved_ec_keys(context) ==
    IF partition_key_name \in DOMAIN context \/ sort_key_name \in DOMAIN context
    THEN "DataModelException" ELSE "ok"

\* PointerItem.__post_init__: the exception it raises, or "ok"
PointerItemError(partition_key, sort_key, context) ==
    IF _assert_set(partition_key, sort_key) # "ok" THEN "DataModelException"
    ELSE IF ~uuid_wellformed(partition_key) THEN "ValueError"
    ELSE IF _validate_reserved_ec_keys(context) # "ok" THEN "DataModelException"
    ELSE IF sort_key # sort_key_config THEN "DataModelException"
    ELSE "ok"

\* PointerItem.__post_init__: the item it leaves
PointerItem(partition_key, sort_key, context) ==
    Item("PointerItem", str_UUID(partition_key), sort_key, context)

\* PointerItem.generate; uuid is the value uuid.uuid4() returned
generate(uuid, context) == PointerItem(uuid, sort_key_config, context)

generate_error(uuid, context) == PointerItemError(uuid, sort_key_config, context)

\* PointerItem.from_key_and_context
from_key_and_context(key, context) == PointerItem(key, sort_key_config, context)

from_key_and_context_error(key, context) ==
    PointerItemError(key, sort_key_config, context)

\* PointerItem.to_item: {**key, **self.context}
to_item(self) == dict_merge(to_key(self), self.context)

\* context_from_item that forgets to delete the sort key
context_from_item_keeps_sort_key(item) == dict_del(item, partition_key_name)

\* PointerItem.context_from_item (item is not None)
context_from_item(item) ==
    dict_del(dict_del(item, partition_key_name), sort_key_name)

\* context_items that keeps the tag name as written
context_items_raw(self) ==
    {Item("ContextItem", context_key, str_UUID(get_s3_key(self)), EmptyDict) :
        context_key \in DOMAIN self.context}

\* PointerItem.context_items: a set, so items equal by ItemEq appear once
context_items(self) ==
    {ContextItem(context_key, get_s3_key(self)) : context_key \in DOMAIN self.context}

\* DocumentBundle.from_data_and_context; uuid is the value uuid.uuid4() returned
from_data_and_context(data, context, uuid) ==
    [key |-> generate(uuid, context), data |-> data]

from_data_and_context_error(data, context, uuid) == generate_error(uuid, context)

(***************************************************************************)
(* Inputs                                                                  *)
(***************************************************************************)
\* tag names: "a" and "A" share a canonical form, "1" has its own, and the
\* two reserved field names
CtxTags == {<<"a">>, <<"A">>, <<"1">>, partition_key_name, sort_key_name}

CtxValues == {<<"1">>, <<"a">>}

Contexts ==
    UNION {[S -> CtxValues] : S \in {T \in SUBSET CtxTags : Cardinality(T) <= MaxCtx}}

\* strings offered as pointer keys: UUIDs as printed, in upper case, and a
\* string that is no UUID
KeyInputs == {<<"a", "1">>, <<"A", "1">>, <<"1", "1">>, <<"p", "1">>}

(***************************************************************************)
(* Entity model: construct items and call their methods.  Two items are    *)
(* alive at most, the operands of a comparison.                            *)
(***************************************************************************)
NoCall == [fn |-> "none"]

\* ContextItem.canonicalize(s)
Canonicalize ==
    /\ \E s \in StringsUpTo(MaxLen) :
          call' = [fn |-> "canonicalize", arg |-> s, ret |-> canonicalize(s)]
    /\ UNCHANGED <<table, bucket, stored, result, objs, writer>>

\* PointerItem.from_key_and_context(key, context), PointerItem(key)
NewPointerItem ==
    /\ Cardinality(objs) < 2
    /\ \E key \in KeyInputs, context \in Contexts :
          LET err == from_key_and_context_error(key, context)
          IN  /\ call' = [fn |-> "from_key_and_context", raised |-> err]
              /\ objs' = IF err = "ok"
                         THEN objs \cup {from_key_and_context(key, context)}
                         ELSE objs
    /\ UNCHANGED <<table, bucket, stored, result, writer>>

\* PointerItem.generate(context)
Generate ==
    /\ Cardinality(objs) < 2
    /\ \E uuid \in UUIDs, context \in Contexts :
          LET err == generate_error(uuid, context)
          IN  /\ call' = [fn |-> "generate", raised |-> err]
              /\ objs' = IF err = "ok"
                         THEN objs \cup {generate(uuid, context)}
                         ELSE objs
    /\ UNCHANGED <<table, bucket, stored, result, writer>>

\* ContextItem(partition_key, sort_key)
NewContextItem ==
    /\ Cardinality(objs) < 2
    /\ \E partition_key \in CtxTags, sort_key \in KeyInputs :
          LET err == ContextItemError(partition_key, sort_key)
          IN  /\ call' = [fn |-> "ContextItem", raised |-> err]
              /\ objs' = IF err = "ok"
                         THEN objs \cup {ContextItem(partition_key, sort_key)}
                         ELSE objs
    /\ UNCHANGED <<table, bucket, stored, result, writer>>

\* BaseItem(partition_key, sort_key): no __post_init__, any keys
NewBaseItem ==
    /\ Cardinality(objs) < 2
    /\ \E partition_key \in KeyInputs, sort_key \in {sort_key_config} \cup KeyInputs :
          /\ call' = [fn |-> "BaseItem", raised |-> "ok"]
          /\ objs' = objs \cup {Item("BaseItem", partition_key, sort_key, EmptyDict)}
    /\ UNCHANGED <<table, bucket, stored, result, writer>>

\* self == other, hash(self), hash(other)
Compare ==
    /\ \E self \in objs, other \in objs :
          call' = [fn |-> "__eq__", self |-> self, other |-> other,
                   ret |-> ItemEq(self, other),
                   hash_self |-> ItemHash(self), hash_other |-> ItemHash(other)]
    /\ UNCHANGED <<table, bucket, stored, result, objs, writer>>

\* pointer.context_items()
ContextItems ==
    /\ \E self \in objs :
          /\ self.cls = "PointerItem"
          /\ call' = [fn |-> "context_items", self |-> self,
                      ret |-> context_items(self)]
    /\ UNCHANGED <<table, bucket, stored, result, objs, writer>>

\* pointer.context_from_item(pointer.to_item())
ContextFromItem ==
    /\ \E self \in objs :
          /\ self.cls = "PointerItem"
          /\ call' = [fn |-> "context_from_item", self |-> self,
                      item |-> to_item(self),
                      ret |-> context_from_item(to_item(self))]
    /\ UNCHANGED <<table, bucket, stored, result, objs, writer>>

\* del objs[...]: an item goes out of scope
Drop ==
    /\ \E o \in objs : objs' = objs \ {o}
    /\ call' = NoCall
    /\ UNCHANGED <<table, bucket, stored, result, writer>>

NoResult == [op |-> "none"]

\* no store call is in progress; n calls were made so far
Idle(n) == [pc |-> "idle", attempts |-> n]

InitModel ==
    /\ table = EmptyDict
    /\ bucket = EmptyDict
    /\ stored = {}
    /\ result = NoResult
    /\ call = NoCall
    /\ objs = {}
    /\ writer = Idle(0)

NextModel ==
    \/ NewPointerItem
    \/ Generate
    \/ NewContextItem
    \/ NewBaseItem
    \/ Compare
    \/ ContextItems
    \/ ContextFromItem
    \/ Drop

SpecModel == InitModel /\ [][NextModel]_vars

\* canonicalize on its own: every string up to MaxLen
NextCanon == Canonicalize

SpecCanon == InitModel /\ [][NextCanon]_vars

(***************************************************************************)
(* Collaborators.  The record store keeps one item per (partition key,     *)
(* sort key); the blob store one object per key; the encryption provider   *)
(* binds the context into the ciphertext and recovers it on decrypt.       *)
(***************************************************************************)
item_key(item) == <<item[partition_key_name], item[sort_key_name]>>

\* table.put_item(Item=item)
put_item(t, item) ==
    [k \in DOMAIN t \cup {item_key(item)} |->
        IF k = item_key(item) THEN item ELSE t[k]]

\* table.get_item(Key=...) has an "Item"
has_item(t, key) == item_key(key) \in DOMAIN t

get_item(t, key) == t[item_key(key)]

\* table.query(KeyConditionExpression=Key(partition_key_name).eq(v))["Items"]
query(t, v) == {t[k] : k \in {x \in DOMAIN t : x[1] = v}}

\* table.scan()["Items"]
scan(t) == {t[k] : k \in DOMAIN t}

\* bucket.put_object(Body=, Key=, Metadata=)
put_object(b, body, key, metadata) ==
    [k \in DOMAIN b \cup {key} |->
        IF k = key THEN [Body |-> body, Metadata |-> metadata] ELSE b[k]]

\* aws_encryption_sdk.encrypt(source=, encryption_context=)
encrypt(source, encryption_context) ==
    [plaintext |-> source, encryption_context |-> encryption_context]

\* aws_encryption_sdk.decrypt(source=): (plaintext, header)
decrypt(source) ==
    <<source.plaintext, [encryption_context |-> source.encryption_context]>>

(***************************************************************************)
(* Python membership tests of retrieve.  A Python value is                 *)
(* [type, val]: a set is unhashable, a frozenset hashes but equals no str. *)
(***************************************************************************)
PySet(kind, elems) == [type |-> kind, val |-> elems]

\* obj in d.keys(): hashes obj, then looks it up among the keys
dict_keys_contains_error(obj, d) ==
    IF obj.type = "set" THEN "TypeError" ELSE "ok"

dict_keys_contains(obj, d) ==
    IF obj.type = "str" THEN obj.val \in DOMAIN d ELSE FALSE

\* obj in d.items(): true only of a (key, value) 2-tuple that is in d
dict_items_contains(obj, d) ==
    IF obj.type = "tuple" THEN obj.val \in dict_items(d) ELSE FALSE

(***************************************************************************)
(* DocumentBucketOperations                                                *)
(***************************************************************************)
\* _write_pointer
_write_pointer(t, item) == put_item(t, to_item(item))

\* _write_object
_write_object(b, data, item) == put_object(b, data, get_s3_key(item), item.context)

\* _populate_key_records: one put_item per element of pointer.context_items()
RECURSIVE put_keys(_, _)
put_keys(t, items) ==
    IF items = {} THEN t
    ELSE LET context_item == CHOOSE x \in items : TRUE
         IN  put_keys(put_item(t, to_key(context_item)), items \ {context_item})

\* _populate_key_records that stops after the first index row
_populate_key_records_first_only(t, pointer) ==
    LET items == context_items(pointer)
    IN  IF items = {} THEN t
        ELSE put_item(t, to_key(CHOOSE x \in items : TRUE))

_populate_key_records(t, pointer) == put_keys(t, context_items(pointer))

\* set.add: an element equal (ItemEq) to one already there is not added
set_add(S, x) == IF \E y \in S : ItemEq(y, x) THEN S ELSE S \cup {x}

\* _query_for_context_key, the loop body for one index row:
\* the exception it raises, or "ok"
query_row_error(t, ddb_item) ==
    LET key == ddb_item[sort_key_name]
        err == PointerItemError(key, sort_key_config, EmptyDict)
    IN  IF err # "ok" THEN err
        ELSE IF ~has_item(t, to_key(PointerItem(key, sort_key_config, EmptyDict)))
        THEN "DataModelException"
        ELSE "ok"

\* the pointer the loop body adds: PointerItem(key) with the context of its row
query_row_pointer(t, ddb_item) ==
    LET pointer == PointerItem(ddb_item[sort_key_name], sort_key_config, EmptyDict)
        pointer_data == get_item(t, to_key(pointer))
    IN  [pointer EXCEPT !.context = context_from_item(pointer_data)]

RECURSIVE query_rows(_, _, _)
query_rows(t, rows, pointers) ==
    IF rows = {} THEN pointers
    ELSE LET ddb_item == CHOOSE x \in rows : TRUE
         IN  query_rows(t, rows \ {ddb_item},
                        set_add(pointers, query_row_pointer(t, ddb_item)))

\* _query_for_context_key(query), query.partition_key already canonical
_query_for_context_key_error(t, partition_key) ==
    LET rows == query(t, partition_key)
        bad == {r \in rows : query_row_error(t, r) # "ok"}
    IN  IF bad = {} THEN "ok" ELSE query_row_error(t, CHOOSE r \in bad : TRUE)

_query_for_context_key(t, partition_key) ==
    query_rows(t, query(t, partition_key), {})

\* search_by_context_key: ContextQuery(context_key) canonicalizes the tag
search_by_context_key(t, context_key) ==
    _query_for_context_key(t, canonicalize(context_key))

search_by_context_key_error(t, context_key) ==
    _query_for_context_key_error(t, canonicalize(context_key))

\* _scan_table without the test that skips context key entries
scan_rows_unfiltered(rows) == rows

\* _scan_table: the rows that survive "if is_context_key_fmt: continue"
scan_rows(rows) == {r \in rows : ~is_context_key_fmt(r[partition_key_name])}

_scan_table_error(t) ==
    LET bad == {r \in scan_rows(scan(t)) :
                    PointerItemError(r[partition_key_name], sort_key_config,
                                     EmptyDict) # "ok"}
    IN  IF bad = {} THEN "ok"
        ELSE PointerItemError((CHOOSE r \in bad : TRUE)[partition_key_name],
                              sort_key_config, EmptyDict)

RECURSIVE scan_pointers(_, _)
scan_pointers(rows, pointers) ==
    IF rows = {} THEN pointers
    ELSE LET ddb_item == CHOOSE x \in rows : TRUE
         IN  scan_pointers(rows \ {ddb_item},
                set_add(pointers, PointerItem(ddb_item[partition_key_name],
                                              sort_key_config, EmptyDict)))

_scan_table(t) == scan_pointers(scan_rows(scan(t)), {})

(***************************************************************************)
(* Inputs of the bucket operations                                         *)
(***************************************************************************)
Data == {<<"1">>, <<"a", "a">>}

Ctx1(k, v) == [x \in {k} |-> v]

Ctx2(k1, v1, k2, v2) == [x \in {k1, k2} |-> IF x = k1 THEN v1 ELSE v2]

\* contexts given to store: untagged, one tag, tags differing only in case,
\* two unrelated tags, and contexts that use a reserved field name
StoreContexts ==
    {EmptyDict,
     Ctx1(<<"a">>, <<"1">>), Ctx1(<<"a">>, <<"a">>), Ctx1(<<"A">>, <<"1">>),
     Ctx1(<<"1">>, <<"1">>),
     Ctx2(<<"a">>, <<"1">>, <<"A">>, <<"a">>),
     Ctx2(<<"a">>, <<"1">>, <<"1">>, <<"a">>),
     Ctx1(partition_key_name, <<"1">>), Ctx1(sort_key_name, <<"1">>),
     Ctx2(<<"a">>, <<"1">>, sort_key_name, <<"1">>)}

\* expected_context_keys: a set (the annotated type) or a frozenset
ExpectedKeys ==
    {PySet(kind, elems) : kind \in {"set", "frozenset"},
                          elems \in {{}, {<<"a">>}, {<<"1">>}}}

\* expected_context
ExpectedContexts ==
    {EmptyDict, Ctx1(<<"a">>, <<"1">>), Ctx1(<<"a">>, <<"a">>),
     Ctx1(partition_key_name, <<"1">>)}

\* tags searched for; "paa" is a tag already carrying the prefix in lower case
SearchTags == {<<"a">>, <<"A">>, <<"1">>, <<"p", "a", "a">>}

NoBundle == [key |-> None, data |-> None]

\* the UUIDs uuid.uuid4() has not returned yet (it does not repeat itself)
FreshUUIDs == UUIDs \ {d.key : d \in stored}

(***************************************************************************)
(* store(data, context)                                                    *)
(***************************************************************************)
Store ==
    /\ result = NoResult
    /\ \E data \in Data, context \in StoreContexts, uuid \in FreshUUIDs :
        LET encrypted_data == encrypt(data, context)
            err == generate_error(uuid, context)
            item == generate(uuid, context)
        IN  IF err # "ok"
            THEN /\ result' = [op |-> "store", data |-> data, context |-> context,
                               raised |-> err, ret |-> None]
                 /\ UNCHANGED <<table, bucket, stored, call, objs, writer>>
            ELSE /\ Cardinality(stored) < MaxDocs
                 /\ table' = _populate_key_records(_write_pointer(table, item), item)
                 /\ bucket' = _write_object(bucket, encrypted_data, item)
                 /\ stored' = stored \cup
                        {[key |-> item.partition_key, data |-> data,
                          context |-> context]}
                 /\ result' = [op |-> "store", data |-> data, context |-> context,
                               raised |-> "ok", ret |-> item]
                 /\ UNCHANGED <<call, objs, writer>>

(***************************************************************************)
(* retrieve(pointer_key, expected_context_keys, expected_context)          *)
(***************************************************************************)
\* the exception retrieve raises, or "ok"
retrieve_error(b, pointer_key, expected_context_keys, expected_context, uuid) ==
    LET err == from_key_and_context_error(pointer_key, expected_context)
        item == from_key_and_context(pointer_key, expected_context)
    IN  IF err # "ok" THEN err
        ELSE IF get_s3_key(item) \notin DOMAIN b THEN "NoSuchKey"
        ELSE LET header == decrypt(b[get_s3_key(item)].Body)[2]
                 ec == header.encryption_context
             IN  IF dict_keys_contains_error(expected_context_keys, ec) # "ok"
                 THEN dict_keys_contains_error(expected_context_keys, ec)
                 ELSE IF ~dict_keys_contains(expected_context_keys, ec)
                 THEN "AssertionError"
                 ELSE IF ~dict_items_contains(
                            PySet("dict_items", dict_items(expected_context)), ec)
                 THEN "AssertionError"
                 ELSE from_data_and_context_error(
                            decrypt(b[get_s3_key(item)].Body)[1], ec, uuid)

\* the bundle retrieve returns when it raises nothing
retrieve(b, pointer_key, expected_context_keys, expected_context, uuid) ==
    LET item == from_key_and_context(pointer_key, expected_context)
        dec == decrypt(b[get_s3_key(item)].Body)
    IN  from_data_and_context(dec[1], dec[2].encryption_context, uuid)

Retrieve ==
    /\ result = NoResult
    /\ \E pointer_key \in KeyInputs, expected_context_keys \in ExpectedKeys,
          expected_context \in ExpectedContexts, uuid \in FreshUUIDs :
          LET err == retrieve_error(bucket, pointer_key, expected_context_keys,
                                    expected_context, uuid)
          IN  result' = [op |-> "retrieve", pointer_key |-> pointer_key,
                         expected_context_keys |-> expected_context_keys,
                         expected_context |-> expected_context,
                         raised |-> err,
                         ret |-> IF err = "ok"
                                 THEN retrieve(bucket, pointer_key,
                                               expected_context_keys,
                                               expected_context, uuid)
                                 ELSE NoBundle]
    /\ UNCHANGED <<table, bucket, stored, call, objs, writer>>

(***************************************************************************)
(* search_by_context_key(context_key), list()                              *)
(***************************************************************************)
Search ==
    /\ result = NoResult
    /\ \E context_key \in SearchTags :
          LET err == search_by_context_key_error(table, context_key)
          IN  result' = [op |-> "search_by_context_key",
                         context_key |-> context_key,
                         raised |-> err,
                         ret |-> IF err = "ok"
                                 THEN search_by_context_key(table, context_key)
                                 ELSE {}]
    /\ UNCHANGED <<table, bucket, stored, call, objs, writer>>

List ==
    /\ result = NoResult
    /\ LET err == _scan_table_error(table)
       IN  result' = [op |-> "list", raised |-> err,
                      ret |-> IF err = "ok" THEN _scan_table(table) ELSE {}]
    /\ UNCHANGED <<table, bucket, stored, call, objs, writer>>

\* the caller receives what the operation returned or raised; the operations
\* are synchronous, the next one starts after that
Return ==
    /\ result # NoResult
    /\ result' = NoResult
    /\ UNCHANGED <<table, bucket, stored, call, objs, writer>>

Init == InitModel

Next ==
    \/ Store
    \/ Retrieve
    \/ Search
    \/ List
    \/ Return

Spec == Init /\ [][Next]_vars

(***************************************************************************)
(* store(data, context), one call of a collaborator at a time, with a      *)
(* reader calling list, search_by_context_key and retrieve in between.     *)
(* A call of a collaborator may raise; store has no try/except, so the     *)
(* exception ends it there.                                                *)
(***************************************************************************)
\* the writes of store in a changed order: the blob before the pointer row
store_steps_object_first == <<"write_object", "write_pointer", "populate">>

\* the writes of store in a changed order: the index rows before the blob
store_steps_index_before_object == <<"write_pointer", "populate", "write_object">>

\* store, lines 106-108: _write_pointer, _write_object, _populate_key_records
store_steps == <<"write_pointer", "write_object", "populate">>

\* contexts of the step-wise store: two tags (two index rows, so that the
\* loop can stop half way) and a reserved name
StepContexts ==
    {Ctx2(<<"a">>, <<"1">>, <<"1">>, <<"a">>),
     Ctx1(sort_key_name, <<"1">>)}

StepData == {<<"1">>}

\* the UUIDs uuid.uuid4() has not returned yet: no row, no object has them
StepFreshUUIDs ==
    UUIDs \ ({k[1] : k \in DOMAIN table} \cup DOMAIN bucket)

\* the write store is about to make
CurrentStep ==
    IF writer.pc = "running" /\ writer.step <= Len(store_steps)
    THEN store_steps[writer.step] ELSE "none"

\* store raises: the exception leaves store, nothing is undone
Raised(at, exc) ==
    [pc |-> "raised", at |-> at, raised |-> exc, item |-> writer.item,
     context |-> writer.context, written |-> writer.written,
     attempts |-> writer.attempts]

\* lines 100-105: encrypt, then PointerItem.generate
StoreBegin ==
    /\ writer.pc = "idle"
    /\ writer.attempts < MaxAttempts
    /\ \E data \in StepData, context \in StepContexts, uuid \in StepFreshUUIDs,
          encrypt_fails \in BOOLEAN :
          LET err == generate_error(uuid, context)
              item == generate(uuid, context)
              begun == [pc |-> "running", step |-> 1, data |-> data,
                        context |-> context, item |-> item,
                        encrypted_data |-> encrypt(data, context),
                        todo |-> context_items(item), written |-> {},
                        attempts |-> writer.attempts + 1]
          IN  writer' =
                IF encrypt_fails
                THEN [pc |-> "raised", at |-> "encrypt",
                      raised |-> "EncryptionFailure", item |-> None,
                      context |-> context, written |-> {},
                      attempts |-> writer.attempts + 1]
                ELSE IF err # "ok"
                THEN [pc |-> "raised", at |-> "generate", raised |-> err,
                      item |-> None, context |-> context, written |-> {},
                      attempts |-> writer.attempts + 1]
                ELSE begun
    /\ UNCHANGED <<table, bucket, stored, result, call, objs>>

\* line 106: self._write_pointer(item)
StoreWritePointer ==
    /\ CurrentStep = "write_pointer"
    /\ table' = _write_pointer(table, writer.item)
    /\ writer' = [writer EXCEPT !.step = @ + 1]
    /\ UNCHANGED <<bucket, stored, result, call, objs>>

\* line 107: self._write_object(encrypted_data, item)
StoreWriteObject ==
    /\ CurrentStep = "write_object"
    /\ bucket' = _write_object(bucket, writer.encrypted_data, writer.item)
    /\ writer' = [writer EXCEPT !.step = @ + 1]
    /\ UNCHANGED <<table, stored, result, call, objs>>

\* line 108, one turn of the loop of _populate_key_records: the set is
\* iterated in no particular order
StorePopulate ==
    /\ CurrentStep = "populate"
    /\ \E context_item \in writer.todo :
          /\ table' = put_item(table, to_key(context_item))
          /\ writer' = [writer EXCEPT !.todo = @ \ {context_item},
                                      !.written = @ \cup {context_item}]
    /\ UNCHANGED <<bucket, stored, result, call, objs>>

\* the loop of _populate_key_records ends
StorePopulateEnd ==
    /\ CurrentStep = "populate"
    /\ writer.todo = {}
    /\ writer' = [writer EXCEPT !.step = @ + 1]
    /\ UNCHANGED <<table, bucket, stored, result, call, objs>>

\* put_item or put_object raises instead of writing
StoreFail ==
    /\ CurrentStep # "none"
    /\ CurrentStep = "populate" => writer.todo # {}
    /\ writer' = Raised(CurrentStep, "ClientError")
    /\ UNCHANGED <<table, bucket, stored, result, call, objs>>

\* line 109: return item
StoreReturn ==
    /\ writer.pc = "running"
    /\ writer.step > Len(store_steps)
    /\ stored' = stored \cup {[key |-> writer.item.partition_key,
                               data |-> writer.data,
                               context |-> writer.context]}
    /\ writer' = Idle(writer.attempts)
    /\ UNCHANGED <<table, bucket, result, call, objs>>

\* the caller of store has the exception
StoreRaised ==
    /\ writer.pc = "raised"
    /\ writer' = Idle(writer.attempts)
    /\ UNCHANGED <<table, bucket, stored, result, call, objs>>

\* the reader calls retrieve(pointer_key) with the default expectations
ReaderRetrieve ==
    /\ Retrieve
    /\ result'.expected_context_keys = PySet("set", {})
    /\ result'.expected_context = EmptyDict

NextSteps ==
    \/ StoreBegin
    \/ StoreWritePointer
    \/ StoreWriteObject
    \/ StorePopulate
    \/ StorePopulateEnd
    \/ StoreFail
    \/ StoreReturn
    \/ StoreRaised
    \/ ReaderRetrieve
    \/ Search
    \/ List
    \/ Return

SpecSteps == Init /\ [][NextSteps]_vars

(***************************************************************************)
(* Claims about retrieve                                                   *)
(***************************************************************************)
\* the pointer store returned for document d
PointerOf(d) == Item("PointerItem", d.key, sort_key_config, d.context)

\* the last operation was retrieve(d.key, K, E) on the stored document d with
\* every name of K a tag of d and every pair of E a pair of d's context
SatisfiedRetrieveOf(d) ==
    /\ result.op = "retrieve"
    /\ d \in stored
    /\ result.pointer_key = d.key
    /\ result.expected_context_keys.val \subseteq DOMAIN d.context
    /\ dict_items(result.expected_context) \subseteq dict_items(d.context)

\* the last operation was a retrieve that got as far as decrypting the stored
\* document d, with some name of K or some pair of E that d's context lacks
UnmetRetrieveOf(d) ==
    /\ result.op = "retrieve"
    /\ d \in stored
    /\ from_key_and_context_error(result.pointer_key,
                                  result.expected_context) = "ok"
    /\ str_UUID(result.pointer_key) = d.key
    /\ \/ ~(result.expected_context_keys.val \subseteq DOMAIN d.context)
       \/ ~(dict_items(result.expected_context) \subseteq dict_items(d.context))

\* C1: retrieve accepts satisfied expectations: retrieve(returnedKey, K, E) of a
\* stored document, with K among its tag names and E among its pairs (the
\* defaults K = {} and E = {} included), does not fail and returns the
\* document's data and a key carrying the document's context.
C1_RetrieveAcceptsSatisfied ==
    \A d \in stored :
        SatisfiedRetrieveOf(d) =>
            /\ result.raised = "ok"
            /\ result.ret.data = d.data
            /\ result.ret.key.context = d.context

\* C2: retrieve rejects unmet expectations: when some name of K is no tag of the
\* recovered context or some pair of E is no pair of it, retrieve fails with
\* ContextMismatch (AssertionError) and returns no bundle.
C2_RetrieveRejectsUnmet ==
    \A d \in stored :
        UnmetRetrieveOf(d) =>
            /\ result.raised = "AssertionError"
            /\ result.ret = NoBundle

\* C3: the bundle of a successful retrieve(pointerKey, ...) is keyed by the
\* pointer that was requested: a retrieve of a stored document with satisfied
\* expectations returns a bundle whose key has the canonical form of
\* pointerKey as partition key and carries the recovered context.
C3_BundleKeyIsRequestedPointer ==
    \A d \in stored :
        SatisfiedRetrieveOf(d) =>
            /\ result.raised = "ok"
            /\ result.ret.key.partition_key = str_UUID(result.pointer_key)
            /\ ItemEq(result.ret.key, PointerOf(d))

(***************************************************************************)
(* Claims about store, search_by_context_key and list                      *)
(***************************************************************************)
HasReservedKey(context) ==
    partition_key_name \in DOMAIN context \/ sort_key_name \in DOMAIN context

\* C4: reserved-key rejection leaves storage untouched: a store whose context
\* contains the reserved partition-key or sort-key field name fails with
\* ReservedKeyCollision (DataModelException) and changes neither the record
\* store nor the blob store.
C4_ReservedKeyStoreWritesNothing ==
    [][(result = NoResult /\ result'.op = "store"
            /\ HasReservedKey(result'.context))
        => (/\ result'.raised = "DataModelException"
            /\ table' = table
            /\ bucket' = bucket)]_vars

\* a store of a context with the reserved sort-key name was rejected while
\* documents were already in both stores
C4_Witness ==
    /\ result.op = "store"
    /\ sort_key_name \in DOMAIN result.context
    /\ result.raised = "DataModelException"
    /\ DOMAIN table # {}
    /\ DOMAIN bucket # {}

\* the stored documents that carry a tag whose canonical form is that of tag
TaggedWith(tag) ==
    {d \in stored :
        \E k \in DOMAIN d.context : canonicalize(k) = canonicalize(tag)}

\* C5: after successful store calls, searchByContextKey(tag) returns exactly the
\* pointers of the stored documents that have a tag name whose canonical form
\* is canonicalizeTag(tag), once each, and each pointer carries the context its
\* document was stored with.
C5_SearchReturnsExactlyTagged ==
    result.op = "search_by_context_key" =>
        /\ result.raised = "ok"
        /\ result.ret = {PointerOf(d) : d \in TaggedWith(result.context_key)}
        /\ \A x \in result.ret, y \in result.ret : ItemEq(x, y) => x = y

\* a search found one of two stored documents, under a tag name spelled
\* otherwise than the searched one, and left out a document with another tag
C5_Witness ==
    /\ result.op = "search_by_context_key"
    /\ Cardinality(stored) = 2
    /\ Cardinality(result.ret) = 1
    /\ \E x \in result.ret :
          /\ x.context # EmptyDict
          /\ result.context_key \notin DOMAIN x.context
    /\ \E d \in stored \ TaggedWith(result.context_key) : d.context # EmptyDict

\* C6: after successful store calls, list() returns exactly one bare pointer per
\* stored document (partition key the document's UUID, sort key the object
\* marker) and nothing else: no context-index row shows up, no document is
\* left out.
C6_ListReturnsExactlyDocuments ==
    result.op = "list" =>
        /\ result.raised = "ok"
        /\ result.ret =
              {Item("PointerItem", d.key, sort_key_config, EmptyDict) : d \in stored}
        /\ Cardinality(result.ret) = Cardinality(stored)

\* list() ran over a record store holding two pointer rows and index rows
C6_Witness ==
    /\ result.op = "list"
    /\ Cardinality(result.ret) = 2
    /\ \E k \in DOMAIN table : is_context_key_fmt(k[1])

(***************************************************************************)
(* Claims about the entity model                                           *)
(***************************************************************************)
\* the canonical forms of the tag names of a context
CanonicalTags(context) == {canonicalize(k) : k \in DOMAIN context}

\* C7, as stated: a PointerItem with N distinct tag names yields exactly N
\* ContextItems, one per tag name, each with the pointer's storage key as sort
\* key and canonicalizeTag(tagName) as partition key.
C7_FanOutOnePerTagName ==
    call.fn = "context_items" =>
        /\ Cardinality(call.ret) = Cardinality(DOMAIN call.self.context)
        /\ \A x \in call.ret :
              /\ x.sort_key = get_s3_key(call.self)
              /\ x.partition_key \in CanonicalTags(call.self.context)

\* C7, amended: context_items yields exactly one ContextItem per distinct
\* canonical form of the tag names (N of them when the N tag names have
\* pairwise distinct canonical forms), each with the pointer's storage key as
\* sort key and the canonical form of a tag name as partition key, and every
\* tag name's canonical form is there.
C7_FanOutOnePerCanonicalTag ==
    call.fn = "context_items" =>
        /\ Cardinality(call.ret) = Cardinality(CanonicalTags(call.self.context))
        /\ Cardinality(CanonicalTags(call.self.context))
              = Cardinality(DOMAIN call.self.context)
           => Cardinality(call.ret) = Cardinality(DOMAIN call.self.context)
        /\ \A x \in call.ret :
              /\ x.cls = "ContextItem"
              /\ x.sort_key = get_s3_key(call.self)
              /\ x.partition_key \in CanonicalTags(call.self.context)
        /\ \A k \in DOMAIN call.self.context :
              \E x \in call.ret : x.partition_key = canonicalize(k)

\* context_items of a pointer with two tag names that differ only in case
C7_Witness ==
    /\ call.fn = "context_items"
    /\ Cardinality(DOMAIN call.self.context) = 2
    /\ Cardinality(call.ret) = 1

\* C8: canonicalization is idempotent and always prefixed: canonicalizing the
\* result again changes nothing, the result starts with the reserved prefix,
\* and an upper-case string that already starts with the prefix comes back
\* unchanged (the prefix is added at most once).
C8_CanonicalizeIdempotentPrefixed ==
    call.fn = "canonicalize" =>
        /\ canonicalize(call.ret) = call.ret
        /\ startswith(call.ret, _prefix)
        /\ (startswith(call.arg, _prefix) /\ upper(call.arg) = call.arg)
              => call.ret = call.arg

\* canonicalize of an upper-case string that starts with the prefix and goes on
C8_Witness ==
    /\ call.fn = "canonicalize"
    /\ startswith(call.arg, _prefix)
    /\ upper(call.arg) = call.arg
    /\ Len(call.arg) > Len(_prefix)
    /\ call.ret = call.arg

SameKeys(a, b) == a.partition_key = b.partition_key /\ a.sort_key = b.sort_key

\* C9: equality by key only: two PointerItems with the same (partition key,
\* sort key) are equal and hash alike whatever their contexts, two ContextItems
\* with the same keys are equal, and items of different kinds are never equal,
\* identical keys or not.
C9_EqualityByKeyOnly ==
    call.fn = "__eq__" =>
        /\ (call.self.cls = "PointerItem" /\ call.other.cls = "PointerItem"
                /\ SameKeys(call.self, call.other))
              => (call.ret /\ call.hash_self = call.hash_other)
        /\ (call.self.cls = "ContextItem" /\ call.other.cls = "ContextItem"
                /\ SameKeys(call.self, call.other))
              => call.ret
        /\ call.self.cls # call.other.cls => ~call.ret

\* two PointerItems with the same keys and different contexts were compared
C9_Witness ==
    /\ call.fn = "__eq__"
    /\ call.self.cls = "PointerItem"
    /\ call.other.cls = "PointerItem"
    /\ SameKeys(call.self, call.other)
    /\ call.self.context # call.other.context
    /\ call.ret

\* C10: context extraction round trip: context_from_item(pointer.to_item())
\* returns a map equal to the context the pointer was made with: the two key
\* fields are gone and every tag, and nothing else, remains.
C10_ContextRoundTrip ==
    call.fn = "context_from_item" =>
        /\ call.ret = call.self.context
        /\ partition_key_name \notin DOMAIN call.ret
        /\ sort_key_name \notin DOMAIN call.ret
        /\ DOMAIN call.item = DOMAIN call.self.context
                                \cup {partition_key_name, sort_key_name}

\* the round trip of a pointer with two tags
C10_Witness ==
    /\ call.fn = "context_from_item"
    /\ Cardinality(DOMAIN call.self.context) = 2
    /\ call.ret = call.self.context

(***************************************************************************)
(* Claims about the writes of store                                        *)
(***************************************************************************)
PointerRowOf(u) == <<u, sort_key_config>>

\* the index rows of document u in the record store
IndexRowsOf(u) == {k \in DOMAIN table : is_context_key_fmt(k[1]) /\ k[2] = u}

\* pointer row first, blob second, index rows last, for every document
WriteOrder ==
    \A u \in UUIDs :
        /\ u \in DOMAIN bucket => PointerRowOf(u) \in DOMAIN table
        /\ IndexRowsOf(u) # {} =>
              (u \in DOMAIN bucket /\ PointerRowOf(u) \in DOMAIN table)

\* what a store that raised has left behind
LeftBehind ==
    writer.pc = "raised" =>
        /\ writer.at \in {"encrypt", "generate"} => writer.item = None
        /\ writer.at = "write_pointer" =>
              /\ PointerRowOf(writer.item.partition_key) \notin DOMAIN table
              /\ get_s3_key(writer.item) \notin DOMAIN bucket
        /\ writer.at = "write_object" =>
              /\ PointerRowOf(writer.item.partition_key) \in DOMAIN table
              /\ table[PointerRowOf(writer.item.partition_key)] = to_item(writer.item)
              /\ get_s3_key(writer.item) \notin DOMAIN bucket
              /\ IndexRowsOf(writer.item.partition_key) = {}
        /\ writer.at = "populate" =>
              /\ PointerRowOf(writer.item.partition_key) \in DOMAIN table
              /\ get_s3_key(writer.item) \in DOMAIN bucket
              /\ IndexRowsOf(writer.item.partition_key)
                    = {item_key(to_key(x)) : x \in writer.written}
              /\ writer.written # context_items(writer.item)

\* no step removes or rewrites a row or an object
StaysInPlace ==
    /\ \A k \in DOMAIN table : k \in DOMAIN table' /\ table'[k] = table[k]
    /\ \A k \in DOMAIN bucket : k \in DOMAIN bucket' /\ bucket'[k] = bucket[k]

\* C11: store writes the pointer row, then the blob object, then the index
\* rows, only after encryption and pointer construction succeeded, and rolls
\* nothing back: when the blob write fails the pointer row stays, when an
\* index-row write fails the pointer row, the blob and the index rows already
\* written stay.
C11_WriteOrderNoRollback ==
    [][/\ StaysInPlace
       /\ writer'.pc = "raised" => (table' = table /\ bucket' = bucket)
       /\ (writer.pc = "idle" /\ writer'.pc # "idle")
             => (table' = table /\ bucket' = bucket)
       /\ LeftBehind'
       /\ WriteOrder']_vars

\* a write of the second index row failed: pointer row, blob and the first
\* index row are there, and still there after the caller got the exception
C11_Witness ==
    /\ writer.pc = "raised"
    /\ writer.at = "populate"
    /\ Cardinality(writer.written) = 1
    /\ Cardinality(IndexRowsOf(writer.item.partition_key)) = 1
    /\ get_s3_key(writer.item) \in DOMAIN bucket

\* the document of the store call in progress
Writing == writer.item.partition_key

PointerNoBlob(u) == PointerRowOf(u) \in DOMAIN table /\ u \notin DOMAIN bucket

IndexNoBlob(u) == IndexRowsOf(u) # {} /\ u \notin DOMAIN bucket

\* C12, as stated: both intermediate states exist for a reader to find: once
\* store has written the pointer row there is no blob object under the
\* storage key yet, and once it has written its first index row there is no
\* blob object under the storage key yet.
C12_BothStatesObservable ==
    [][/\ (CurrentStep = "write_pointer" /\ table' # table)
             => PointerNoBlob(Writing)'
       /\ (CurrentStep = "populate" /\ table' # table /\ writer.written = {})
             => IndexNoBlob(Writing)']_vars

\* C12, amended: a reader between the writes of a store can find the
\* document's pointer row with no blob object under its storage key; it never
\* finds index rows of a document without the blob object: every pointer that
\* search_by_context_key returns, and every index row in the record store,
\* belongs to a document whose blob object and pointer row exist.
C12_IndexRowsOnlyAfterBlob ==
    /\ \A u \in UUIDs : ~IndexNoBlob(u)
    /\ result.op = "search_by_context_key" =>
          /\ result.raised = "ok"
          /\ \A p \in result.ret :
                /\ get_s3_key(p) \in DOMAIN bucket
                /\ PointerRowOf(p.partition_key) \in DOMAIN table

\* list() returned the pointer of the document being stored, and retrieve of
\* it would find no object: the pointer row is written, the blob is not
C12_Witness ==
    /\ writer.pc = "running"
    /\ result.op = "list"
    /\ \E p \in result.ret :
          /\ p.partition_key = Writing
          /\ PointerNoBlob(Writing)
    /\ writer.todo # {}

====
